---- MODULE Spec2Model ----
(***************************************************************************)
(* The AudioCutter component (src/src/app/components/AudioCutter.tsx and   *)
(* its second revision src/unnamed/part_000) as a state machine.           *)
(*                                                                         *)
(* State: the six React state cells of the component, the WaveSurfer       *)
(* instances the effect has created, the fetch/decode chains started by    *)
(* handleTrim that have not completed yet, and what the trims produced     *)
(* (the download, audition sources).  One action per handler or callback.     *)
(*                                                                         *)
(* A handler is modelled together with the re-render and the run of        *)
(* useEffect([audioFile]) that its state updates cause: the handlers are   *)
(* discrete DOM events, for which React runs the effect before the next    *)
(* event is delivered.                                                     *)
(*                                                                         *)
(* Times are exact rationals kept as integers: a time t seconds is kept as *)
(* 100*t (the code divides the slider value by 100), a frame position as   *)
(* 100*frames.  The code computes them in IEEE doubles.                    *)
(***************************************************************************)
EXTENDS Integers, Sequences, FiniteSets, TLC

\* ---------------------------------------------------------------- bounds
\* WaveSurfer.create calls explored (file selections with a file).
MaxInstances == 2
\* handleTrim calls that start a fetch/decode chain.
MaxTrims == 1
\* The slider positions explored are the multiples of SliderStep in 0..100,
\* and 100 (the Slider's real step is 1).
SliderStep == 50

\* ------------------------------------------------------ program constants
\* useState<number>(0) for duration, and setDuration(0) in handleReset.
DefaultDuration == 0
\* useState<number>(0) for start, and setStart(0).
DefaultStart == 0
\* useState<number>(100) for end, and setEnd(100); also the end Slider's max.
DefaultEnd == 100

\* ------------------------------------------------------------ the inputs
\* audioFile = null (useState<File | null>(null)); files[0] of an empty
\* FileList (undefined) is not told apart from it: both are falsy.
NoFile == "null"

\* The files the user can pick.  X is a file the audio decoder rejects.
Files == {"A", "B", "X"}

\* What decoding a file gives: duration in seconds, sample rate in Hz,
\* channel count; frame count = duration * sampleRate.
FileInfo(f) ==
    CASE f = "A" -> [duration |-> 10, sampleRate |-> 2, numberOfChannels |-> 2, decodable |-> TRUE]
      [] f = "B" -> [duration |-> 3, sampleRate |-> 3, numberOfChannels |-> 1, decodable |-> TRUE]
      [] OTHER   -> [duration |-> 0, sampleRate |-> 0, numberOfChannels |-> 0, decodable |-> FALSE]

SliderStops == {v \in 0..100 : v % SliderStep = 0} \cup {100}

Min(a, b) == IF a <= b THEN a ELSE b
Max(a, b) == IF a >= b THEN a ELSE b

\* Conversion of a double n/d to an integer by truncation toward zero, as
\* WebIDL (unsigned long) and ToIntegerOrInfinity (TypedArray.slice) do.
Trunc(n, d) == IF n >= 0 THEN n \div d ELSE -((-n) \div d)

\* Math.round of the double n/d (d > 0): nearest, ties toward +infinity.
Round(n, d) == (2 * n + d) \div (2 * d)

VARIABLES
    variant,            \* which revision of the component runs
    afterDestroy,       \* what the player library does with a destroyed instance
    audioFile,          \* useState: the selected File, or NoFile
    waveSurferInstance, \* useState: index into players, 0 = null
    isPlaying,          \* useState
    duration,           \* useState
    start,              \* useState
    end,                \* useState
    players,            \* every WaveSurfer instance created so far
    effectInst,         \* the instance the effect's pending cleanup will destroy, 0 = none
    trims,              \* fetch/decode chains of handleTrim in flight
    nTrims,             \* chains started so far
    lastTrim,           \* what the chain that completed in the last step did
    auditions,          \* ids of the trims whose audition source is sounding
    lastOp              \* the handler or callback that ran last

vars == <<variant, afterDestroy, audioFile, waveSurferInstance, isPlaying, duration,
          start, end, players, effectInst, trims, nTrims, lastTrim, auditions, lastOp>>

\* What the player library does with an instance after destroy(); the source
\* neither aborts the FileReader nor removes its callbacks in the cleanup, so
\* this decides what they do.  "throws": a method called on the instance
\* throws, and none of its events is delivered any more.  "lingers": a method
\* called on it still runs, and its events may still be delivered.
AfterDestroy == {"throws", "lingers"}

\* The two revisions of the component.
Variants == {"AudioCutter", "part_000"}

\* part_000 plays on ready and sets isPlaying; AudioCutter.tsx does not.
Autoplay == variant = "part_000"

Op(name, inst, threw) == [op |-> name, inst |-> inst, threw |-> threw]

NoBuffer == [numberOfChannels |-> 0, sampleRate |-> 0, length |-> 0, data |-> << >>]

\* lastTrim when the last step completed no trim.
NoTrim == [id |-> 0, file |-> NoFile, inst |-> 0, outcome |-> "none", download |-> FALSE,
           buffer |-> NoBuffer, source |-> NoBuffer, bytes |-> "",
           start |-> 0, end |-> 0, duration |-> 0]

Init ==
    /\ variant \in Variants
    /\ afterDestroy \in AfterDestroy
    /\ audioFile = NoFile
    /\ waveSurferInstance = 0
    /\ isPlaying = FALSE
    /\ duration = DefaultDuration
    /\ start = DefaultStart
    /\ end = DefaultEnd
    /\ players = << >>
    /\ effectInst = 0
    /\ trims = {}
    /\ nTrims = 0
    /\ lastTrim = NoTrim
    /\ auditions = {}
    /\ lastOp = Op("init", 0, FALSE)


\* ------------------------------------------------------------ the player
\* A WaveSurfer instance as the component sees it.  phase: "reading" while
\* the effect's FileReader runs, "loading" once loadBlob was called, then
\* "ready" or "failed"; "dead" when loadBlob threw.
NewPlayer(f) == [file |-> f, phase |-> "reading", destroyed |-> FALSE, playing |-> FALSE]

\* waveSurferInstance.stop()
Stop(ps, i) == IF i = 0 THEN ps ELSE [ps EXCEPT ![i].playing = FALSE]

\* wavesurfer.destroy()
Destroy(ps, i) ==
    IF i = 0 THEN ps ELSE [ps EXCEPT ![i].destroyed = TRUE, ![i].playing = FALSE]

\* An effect that returns no cleanup: the previous instance is left alone.
EffectCleanupMissing(ps) == ps

\* The cleanup the previous run of the effect returned.
EffectCleanup(ps) == Destroy(ps, effectInst)

\* A method called on instance i throws.
CallThrows(i) == i # 0 /\ players[i].destroyed /\ afterDestroy = "throws"

\* A callback registered with on() can run for instance i.
Delivers(i) == ~players[i].destroyed \/ afterDestroy = "lingers"

\* The handler or callback op ran in this step.
Did(op) == lastOp' = op /\ lastTrim' = NoTrim

\* op ran and changed nothing.
Unchanged(op) ==
    /\ Did(op)
    /\ UNCHANGED <<variant, afterDestroy, audioFile, waveSurferInstance, isPlaying,
                   duration, start, end, players, effectInst, trims, nTrims,
                   auditions>>

\* The six useState cells as one record, and the assignment of such a record.
Cells == [audioFile |-> audioFile, waveSurferInstance |-> waveSurferInstance,
          isPlaying |-> isPlaying, duration |-> duration, start |-> start,
          end |-> end]

SetCells(c) ==
    /\ audioFile' = c.audioFile
    /\ waveSurferInstance' = c.waveSurferInstance
    /\ isPlaying' = c.isPlaying
    /\ duration' = c.duration
    /\ start' = c.start
    /\ end' = c.end

\* --------------------------------------------------------------- handlers
\* setIsPlaying in handleFileChange: unconditional in AudioCutter.tsx, inside
\* if (waveSurferInstance) in part_000.
FileChangeIsPlaying ==
    IF Autoplay /\ waveSurferInstance = 0 THEN isPlaying ELSE FALSE

\* handleFileChange with files[0] = f, and the effect run it causes.
handleFileChange(f) ==
    /\ f \in Files => Len(players) < MaxInstances
    /\ IF CallThrows(waveSurferInstance)
       THEN Unchanged(Op("handleFileChange", waveSurferInstance, TRUE))
       ELSE LET cleaned == EffectCleanup(Stop(players, waveSurferInstance))
                new == Len(players) + 1
            IN  /\ audioFile' = f
                /\ start' = DefaultStart
                /\ end' = DefaultEnd
                /\ isPlaying' = FileChangeIsPlaying
                /\ IF f # NoFile
                   THEN /\ players' = Append(cleaned, NewPlayer(f))
                        /\ waveSurferInstance' = new
                        /\ effectInst' = new
                   ELSE /\ players' = cleaned
                        /\ effectInst' = 0
                        /\ UNCHANGED waveSurferInstance
                /\ Did(Op("handleFileChange", waveSurferInstance, FALSE))
                /\ UNCHANGED <<variant, afterDestroy, duration, trims, nTrims,
                               auditions>>

\* reader.onload of the effect that created instance i: wavesurfer.loadBlob.
readerOnload(i) ==
    /\ players[i].phase = "reading"
    /\ players' = [players EXCEPT ![i].phase = IF CallThrows(i) THEN "dead" ELSE "loading"]
    /\ Did(Op("readerOnload", i, CallThrows(i)))
    /\ UNCHANGED <<variant, afterDestroy, audioFile, waveSurferInstance, isPlaying,
                   duration, start, end, effectInst, trims, nTrims, auditions>>

\* The load of instance i fails to decode: no 'ready', and the component
\* registers no 'error' callback.
loadError(i) ==
    /\ players[i].phase = "loading"
    /\ ~FileInfo(players[i].file).decodable
    /\ players' = [players EXCEPT ![i].phase = "failed"]
    /\ Did(Op("loadError", i, FALSE))
    /\ UNCHANGED <<variant, afterDestroy, audioFile, waveSurferInstance, isPlaying,
                   duration, start, end, effectInst, trims, nTrims, auditions>>

\* setEnd(wavesurfer.getDuration()) in the 'ready' callback.
ReadyEnd(d) == d

\* wavesurfer.on('ready') of instance i.
onReady(i) ==
    /\ players[i].phase = "loading"
    /\ FileInfo(players[i].file).decodable
    /\ Delivers(i)
    /\ duration' = FileInfo(players[i].file).duration
    /\ end' = ReadyEnd(FileInfo(players[i].file).duration)
    /\ IF ~Autoplay
       THEN /\ players' = [players EXCEPT ![i].phase = "ready"]
            /\ UNCHANGED isPlaying
       ELSE \* wavesurfer.play(); setIsPlaying(true).  Whether a destroyed
            \* instance that still runs its methods makes a sound is open.
            /\ \E sounds \in (IF players[i].destroyed THEN BOOLEAN ELSE {TRUE}) :
                players' = [players EXCEPT ![i].phase = "ready", ![i].playing = sounds]
            /\ isPlaying' = TRUE
    /\ Did(Op("onReady", i, FALSE))
    /\ UNCHANGED <<variant, afterDestroy, audioFile, waveSurferInstance, start,
                   effectInst, trims, nTrims, auditions>>

\* A finish callback that also rewinds the selection to the full range.
FinishCellsResetsRange(c) ==
    [c EXCEPT !.isPlaying = FALSE, !.start = DefaultStart, !.end = DefaultEnd]

\* The cells after the finish callback: setIsPlaying(false) and nothing else.
FinishCells(c) == [c EXCEPT !.isPlaying = FALSE]

\* wavesurfer.on('finish') of instance i.
onFinish(i) ==
    /\ players[i].playing
    /\ Delivers(i)
    /\ players' = [players EXCEPT ![i].playing = FALSE]
    /\ SetCells(FinishCells(Cells))
    /\ Did(Op("onFinish", i, FALSE))
    /\ UNCHANGED <<variant, afterDestroy, effectInst, trims, nTrims, auditions>>

\* handlePlayPause (AudioCutter.tsx only; part_000 has no such handler, and
\* neither revision renders a control for it).
handlePlayPause ==
    /\ ~Autoplay
    /\ IF waveSurferInstance = 0
       THEN Unchanged(Op("handlePlayPause", 0, FALSE))
       ELSE IF CallThrows(waveSurferInstance)
       THEN Unchanged(Op("handlePlayPause", waveSurferInstance, TRUE))
       ELSE /\ players' = [players EXCEPT ![waveSurferInstance].playing =
                              IF players[waveSurferInstance].phase = "ready"
                                 /\ ~players[waveSurferInstance].destroyed
                              THEN ~@ ELSE @]
            /\ isPlaying' = ~isPlaying
            /\ Did(Op("handlePlayPause", waveSurferInstance, FALSE))
            /\ UNCHANGED <<variant, afterDestroy, audioFile, waveSurferInstance,
                           duration, start, end, effectInst, trims, nTrims, auditions>>

\* handleReset, and the effect cleanup that setAudioFile(null) causes.
handleReset ==
    IF waveSurferInstance = 0
    THEN Unchanged(Op("handleReset", 0, FALSE))
    ELSE IF CallThrows(waveSurferInstance)
    THEN Unchanged(Op("handleReset", waveSurferInstance, TRUE))
    ELSE /\ players' = EffectCleanup(Stop(players, waveSurferInstance))
         /\ effectInst' = 0
         /\ audioFile' = NoFile
         /\ duration' = DefaultDuration
         /\ start' = DefaultStart
         /\ end' = DefaultEnd
         /\ isPlaying' = FALSE
         /\ Did(Op("handleReset", waveSurferInstance, FALSE))
         /\ UNCHANGED <<variant, afterDestroy, waveSurferInstance, trims, nTrims,
                        auditions>>

\* The sliders are rendered only when duration > 0.
\* Start Slider: onChange={setStart} min={0} max={end}.
setStart(v) ==
    /\ duration > 0
    /\ 0 <= v /\ v <= end
    /\ start' = v
    /\ Did(Op("setStart", 0, FALSE))
    /\ UNCHANGED <<variant, afterDestroy, audioFile, waveSurferInstance, isPlaying,
                   duration, end, players, effectInst, trims, nTrims, auditions>>

\* End Slider: onChange={setEnd} min={start} max={100}.
setEnd(v) ==
    /\ duration > 0
    /\ start <= v /\ v <= DefaultEnd
    /\ end' = v
    /\ Did(Op("setEnd", 0, FALSE))
    /\ UNCHANGED <<variant, afterDestroy, audioFile, waveSurferInstance, isPlaying,
                   duration, start, players, effectInst, trims, nTrims, auditions>>


\* ------------------------------------------------------------------ trim
\* audioContext.decodeAudioData of a decodable file: sample i of channel c
\* is 1000*c + i, so that no two samples of a file are equal and none is 0.
decodeAudioData(f) ==
    LET info == FileInfo(f)
        n == info.duration * info.sampleRate
    IN  [numberOfChannels |-> info.numberOfChannels,
         sampleRate |-> info.sampleRate,
         length |-> n,
         data |-> [c \in 1..info.numberOfChannels |-> [i \in 1..n |-> 1000 * c + i]]]

\* const startTime = (start / 100) * duration, kept as 100 * startTime.
StartTime(s, d) == s * d

\* const endTime = (end / 100) * duration, kept as 100 * endTime.
EndTime(e, d) == e * d

\* The length argument of createBuffer, buffer.sampleRate * (endTime -
\* startTime), converted to unsigned long.  A negative value stays negative
\* here: its conversion is a length near 2^32.
CreateBufferLength(sr, st, et) == Trunc(sr * (et - st), 100)

\* createBuffer throws NotSupportedError for a length of zero, and cannot
\* allocate the length a negative argument converts to.
CreateBufferThrows(n) == n < 1

\* buffer.getChannelData(channel).slice(startTime * sr, endTime * sr): the
\* index of the first frame taken (0-based) and the number of frames taken.
SliceFrom(buffer, st) == Min(Trunc(st * buffer.sampleRate, 100), buffer.length)
SliceTo(buffer, et) == Min(Trunc(et * buffer.sampleRate, 100), buffer.length)
SliceCount(buffer, st, et) == Max(SliceTo(buffer, et) - SliceFrom(buffer, st), 0)

\* createBuffer, then copyToChannel of the slice for every channel:
\* copyToChannel writes min(slice length, buffer length) frames from frame 0,
\* the rest of a new buffer is silence.
TrimmedBuffer(buffer, st, et) ==
    LET n == CreateBufferLength(buffer.sampleRate, st, et)
        from == SliceFrom(buffer, st)
        count == SliceCount(buffer, st, et)
    IN  [numberOfChannels |-> buffer.numberOfChannels,
         sampleRate |-> buffer.sampleRate,
         length |-> n,
         data |-> [c \in 1..buffer.numberOfChannels |->
                     [i \in 1..n |-> IF i <= count THEN buffer.data[c][from + i] ELSE 0]]]

\* new Blob([trimmedBuffer], { type: 'audio/wav' }): a blob part that is
\* neither a BufferSource nor a Blob is converted to a string.
BlobBytes(buffer) == "[object AudioBuffer]"

\* handleTrim up to the fetch; the Trim button is rendered only when
\* duration > 0.
handleTrim ==
    /\ duration > 0
    /\ nTrims < MaxTrims
    /\ IF waveSurferInstance = 0
       THEN Unchanged(Op("handleTrim", 0, FALSE))
       ELSE IF audioFile = NoFile
       THEN \* URL.createObjectURL(null) throws TypeError
            Unchanged(Op("handleTrim", waveSurferInstance, TRUE))
       ELSE /\ nTrims' = nTrims + 1
            /\ trims' = trims \cup {[id |-> nTrims + 1, file |-> audioFile,
                                     inst |-> waveSurferInstance,
                                     start |-> start, end |-> end, duration |-> duration,
                                     startTime |-> StartTime(start, duration),
                                     endTime |-> EndTime(end, duration)]}
            /\ Did(Op("handleTrim", waveSurferInstance, FALSE))
            /\ UNCHANGED <<variant, afterDestroy, audioFile, waveSurferInstance,
                           isPlaying, duration, start, end, players, effectInst,
                           auditions>>

\* What the .then(buffer => ...) callback of trim t does: "decodeError" when
\* decodeAudioData rejects, "createBufferError" when createBuffer throws
\* (both end in .catch), "ok" when it runs to newSource.start(0).
TrimOutcome(t) ==
    IF ~FileInfo(t.file).decodable THEN "decodeError"
    ELSE IF CreateBufferThrows(CreateBufferLength(FileInfo(t.file).sampleRate,
                                                  t.startTime, t.endTime))
    THEN "createBufferError"
    ELSE "ok"

\* A trim completes if its promise chain reaches the download.
TrimDownloads(t) == TrimOutcome(t) = "ok"

\* The promise chain of trim t completes.
\* A completion that marks the component as playing when it starts the
\* audition.
TrimCellsMarksPlaying(c) == [c EXCEPT !.isPlaying = TRUE]

\* The cells after the promise chain of handleTrim: neither the .then callback
\* nor the .catch callback calls a state setter.
TrimCells(c) == c

trimDone(t) ==
    /\ t \in trims
    /\ trims' = trims \ {t}
    /\ LET out == TrimOutcome(t)
           source == IF out = "decodeError" THEN NoBuffer ELSE decodeAudioData(t.file)
           trimmed == IF out = "ok" THEN TrimmedBuffer(source, t.startTime, t.endTime)
                      ELSE NoBuffer
       IN  /\ lastTrim' = [id |-> t.id, file |-> t.file, inst |-> t.inst, outcome |-> out,
                           download |-> TrimDownloads(t),
                           buffer |-> trimmed, source |-> source,
                           bytes |-> IF out = "ok" THEN BlobBytes(trimmed) ELSE "",
                           start |-> t.start, end |-> t.end, duration |-> t.duration]
           /\ auditions' = IF TrimDownloads(t) THEN auditions \cup {t.id} ELSE auditions
    /\ lastOp' = Op("trimDone", t.id, TrimOutcome(t) # "ok")
    /\ SetCells(TrimCells(Cells))
    /\ UNCHANGED <<variant, afterDestroy, players, effectInst, nTrims>>

\* The audition source of trim id has played its buffer to the end.
auditionEnded(id) ==
    /\ id \in auditions
    /\ auditions' = auditions \ {id}
    /\ Did(Op("auditionEnded", id, FALSE))
    /\ UNCHANGED <<variant, afterDestroy, audioFile, waveSurferInstance, isPlaying,
                   duration, start, end, players, effectInst, trims, nTrims>>

\* ------------------------------------------------------ the specification
Next ==
    \/ \E f \in Files \cup {NoFile} : handleFileChange(f)
    \/ \E i \in 1..Len(players) : readerOnload(i)
    \/ \E i \in 1..Len(players) : loadError(i)
    \/ \E i \in 1..Len(players) : onReady(i)
    \/ \E i \in 1..Len(players) : onFinish(i)
    \/ handlePlayPause
    \/ handleReset
    \/ \E v \in SliderStops : setStart(v)
    \/ \E v \in SliderStops : setEnd(v)
    \/ handleTrim
    \/ \E t \in trims : trimDone(t)
    \/ \E id \in auditions : auditionEnded(id)

Spec == Init /\ [][Next]_vars

\* The component without its Trim button: file selection, the player's
\* callbacks, play/pause, reset and the two sliders.  The trim actions leave
\* players, effectInst and the six state cells unchanged.
NextPlayback ==
    \/ \E f \in Files \cup {NoFile} : handleFileChange(f)
    \/ \E i \in 1..Len(players) : readerOnload(i)
    \/ \E i \in 1..Len(players) : loadError(i)
    \/ \E i \in 1..Len(players) : onReady(i)
    \/ \E i \in 1..Len(players) : onFinish(i)
    \/ handlePlayPause
    \/ handleReset
    \/ \E v \in SliderStops : setStart(v)
    \/ \E v \in SliderStops : setEnd(v)

SpecPlayback == Init /\ [][NextPlayback]_vars

\* The browser delivers every pending FileReader completion and every
\* pending ready event: both are tasks of the event loop.
FairPlayback ==
    \A i \in 1..MaxInstances :
        /\ WF_vars(i <= Len(players) /\ readerOnload(i))
        /\ WF_vars(i <= Len(players) /\ onReady(i))

SpecPlaybackFair == Init /\ [][NextPlayback]_vars /\ FairPlayback

\* One file selected (and selected again), its callbacks, the end slider,
\* the Trim button and the completion of a trim: the part of the component a
\* trim runs in.  The end slider alone yields trims that succeed and trims
\* createBuffer rejects.
TrimFiles == {"A"}

NextTrim ==
    \/ \E f \in TrimFiles : handleFileChange(f)
    \/ \E i \in 1..Len(players) : readerOnload(i)
    \/ \E i \in 1..Len(players) : onReady(i)
    \/ \E v \in SliderStops : setEnd(v)
    \/ handleTrim
    \/ \E t \in trims : trimDone(t)

SpecTrim == Init /\ [][NextTrim]_vars


\* ----------------------------------------------------------------- claims
\* The player instances that are created and not destroyed.
Alive == {i \in 1..Len(players) : ~players[i].destroyed}

\* Trim t was started for an audio source that is no longer the current one:
\* a file was selected or the selection was reset since.
Stale(t) == t.inst # waveSurferInstance \/ t.file # audioFile

\* The last step completed a trim of a file the decoder accepts.
Trimmed == lastTrim.id # 0 /\ FileInfo(lastTrim.file).decodable

\* C1: in every reachable state the selection satisfies start <= end.
C1_StartLeEnd == start <= end

\* C2: when the ready event of a loaded file has been handled, duration is
\* that file's duration and the selection is exactly start = 0, end = 100.
C2_ReadySelectsFullRange ==
    lastOp.op = "onReady" =>
        /\ duration = FileInfo(players[lastOp.inst].file).duration
        /\ start = DefaultStart
        /\ end = DefaultEnd

\* C3: the seconds range a trim computes satisfies
\* 0 <= startTime <= endTime <= duration of the source it decodes.
C3_TrimRangeWithinSource ==
    \A t \in trims :
        FileInfo(t.file).decodable =>
            /\ 0 <= t.startTime
            /\ t.startTime <= t.endTime
            /\ t.endTime <= 100 * FileInfo(t.file).duration

\* round(e/100*D*sr) - round(s/100*D*sr)
RoundedFrameCount(s, e, d, sr) == Round(e * d * sr, 100) - Round(s * d * sr, 100)

\* C4: for a loaded file of duration D and sample rate sr and a selection
\* s <= e, trim produces a buffer whose frame count is within one frame of
\* round(e/100*D*sr) - round(s/100*D*sr).
C4_FrameCountWithinOne ==
    (/\ Trimmed
     /\ lastTrim.duration = FileInfo(lastTrim.file).duration
     /\ lastTrim.start <= lastTrim.end) =>
        /\ lastTrim.outcome = "ok"
        /\ LET want == RoundedFrameCount(lastTrim.start, lastTrim.end, lastTrim.duration,
                                         FileInfo(lastTrim.file).sampleRate)
           IN  /\ lastTrim.buffer.length - want <= 1
               /\ want - lastTrim.buffer.length <= 1

\* C5: a trim with the full range (start = 0, end = 100) produces a buffer
\* equal to the decoded source: channel count, frame count, every sample.
C5_FullRangeIsIdentity ==
    (Trimmed /\ lastTrim.start = 0 /\ lastTrim.end = 100) =>
        /\ lastTrim.outcome = "ok"
        /\ lastTrim.buffer.numberOfChannels = lastTrim.source.numberOfChannels
        /\ lastTrim.buffer.length = lastTrim.source.length
        /\ lastTrim.buffer.data = lastTrim.source.data

\* C6: a trim with start = end on a loaded file with duration > 0 completes
\* without an error, triggers the download and exports zero frames.
C6_EmptySelectionExports ==
    (Trimmed /\ lastTrim.start = lastTrim.end /\ lastTrim.duration > 0) =>
        /\ lastTrim.outcome = "ok"
        /\ lastTrim.download
        /\ lastTrim.buffer.length = 0

\* C7: once a later file has been selected, no event of an earlier instance
\* (its FileReader completion, its ready, its finish) changes duration, end
\* or isPlaying.
C7_EarlierInstanceEventsIgnored ==
    [][\A i \in 1..Len(players) :
          (i < Len(players) /\ (readerOnload(i) \/ onReady(i) \/ onFinish(i)))
              => UNCHANGED <<duration, end, isPlaying>>]_vars

\* C8: the completion of a trim whose audio source is no longer current
\* triggers no download and starts no audition.
C8_StaleTrimIgnored ==
    (lastTrim.id # 0 /\ Stale(lastTrim)) =>
        ~lastTrim.download /\ lastTrim.id \notin auditions

\* C9: at most one player instance is alive in every reachable state.
C9_AtMostOnePlayerAlive == Cardinality(Alive) <= 1

\* C9 witness: a second file was selected while the first instance was alive,
\* and the first instance is destroyed.
C9_Witness ==
    /\ Len(players) >= 2
    /\ players[1].destroyed
    /\ Alive = {2}

\* C10: after handleReset, in whatever state it was issued, there is no audio
\* file, duration = 0, start = 0, end = 100 and isPlaying = false.
C10_ResetRestoresDefaults ==
    lastOp.op = "handleReset" =>
        /\ audioFile = NoFile
        /\ duration = DefaultDuration
        /\ start = DefaultStart
        /\ end = DefaultEnd
        /\ isPlaying = FALSE


\* A file is loaded: the stored instance is live and has had its ready event.
Loaded ==
    /\ waveSurferInstance # 0
    /\ ~players[waveSurferInstance].destroyed
    /\ players[waveSurferInstance].phase = "ready"

\* C11: handlePlayPause takes effect only when a file is loaded: in the
\* no-file state and while a file is loading it neither calls the player
\* (lastOp records no instance) nor changes isPlaying.
C11_PlayPauseOnlyWhenLoaded ==
    [][(handlePlayPause /\ ~Loaded) =>
          (isPlaying' = isPlaying /\ lastOp'.inst = 0)]_vars

\* C12: when the load of a file selected in the no-file state fails, the
\* controller is in the no-file state again: no audio file, duration 0,
\* range {0, 100}.
C12_LoadFailureRestoresNoFile ==
    (/\ lastOp.op = "loadError"
     /\ lastOp.inst = 1
     /\ Len(players) = 1
     /\ ~players[1].destroyed) =>
        /\ audioFile = NoFile
        /\ duration = DefaultDuration
        /\ start = DefaultStart
        /\ end = DefaultEnd

\* C13: a trim, its asynchronous completion included and whether it succeeds
\* or fails, leaves audio file, player instance, duration, start, end and
\* isPlaying as they were.
C13_TrimLeavesStateUnchanged ==
    [][(handleTrim \/ \E t \in trims : trimDone(t)) =>
          UNCHANGED <<audioFile, waveSurferInstance, players, duration, start,
                      end, isPlaying>>]_vars

\* A trim of a selection the user has moved has completed successfully while
\* the component was playing.
C13_Witness ==
    /\ lastOp.op = "trimDone"
    /\ lastTrim.outcome = "ok"
    /\ isPlaying
    /\ duration > 0
    /\ end \in SliderStops \ {duration}
    /\ lastTrim.end = end

\* C14: the finish event changes only the playing flag: audio file, duration,
\* start and end keep their values.
C14_FinishKeepsSelection ==
    [][(\E i \in 1..Len(players) : onFinish(i)) =>
          UNCHANGED <<audioFile, duration, start, end>>]_vars

\* Playback of the current file has finished with a narrowed selection held.
C14_Witness ==
    /\ lastOp.op = "onFinish"
    /\ lastOp.inst = waveSurferInstance
    /\ ~isPlaying
    /\ duration > 0
    /\ start > DefaultStart
    /\ end < DefaultEnd

\* The buffers the Trim button can produce from a decoded source under a
\* stored duration d: one per pair of slider positions createBuffer accepts.
TrimmedBuffersOf(source, d) ==
    {TrimmedBuffer(source, StartTime(s, d), EndTime(e, d)) :
        <<s, e>> \in {p \in SliderStops \X SliderStops :
                        ~CreateBufferThrows(CreateBufferLength(source.sampleRate,
                                                               StartTime(p[1], d),
                                                               EndTime(p[2], d)))}}

\* C15: the bytes placed in the downloaded file determine the trimmed
\* buffer: no other buffer the same source can be trimmed to (different
\* samples, channel count or frame count) exports to the same bytes.
C15_ExportDeterminesBuffer ==
    lastTrim.outcome = "ok" =>
        \A other \in TrimmedBuffersOf(lastTrim.source, lastTrim.duration) :
            BlobBytes(other) = lastTrim.bytes => other = lastTrim.buffer

\* Instance i belongs to the latest selection, its file can be decoded, and
\* ready has not arrived yet.
Pending(i) ==
    /\ i = Len(players)
    /\ ~players[i].destroyed
    /\ FileInfo(players[i].file).decodable
    /\ players[i].phase \in {"reading", "loading"}

\* The component is ready for the file of instance i.
ReadyFor(i) ==
    /\ i <= Len(players)
    /\ players[i].phase = "ready"
    /\ audioFile = players[i].file
    /\ duration = FileInfo(players[i].file).duration

\* A reset or a later selection has destroyed instance i.
Superseded(i) == i < Len(players) \/ (i = Len(players) /\ players[i].destroyed)

\* C16: a selection of a file whose load and decode succeed makes that file
\* the current one and starts its load, and unless a reset or a later
\* selection follows, the component eventually is ready with the duration of
\* the selected file.
C16_LastSelectionBecomesReady ==
    /\ [][\A f \in {g \in Files : FileInfo(g).decodable} :
            handleFileChange(f) =>
                (/\ audioFile' = f
                 /\ Len(players') = Len(players) + 1
                 /\ players'[Len(players')] = NewPlayer(f)
                 /\ waveSurferInstance' = Len(players'))]_vars
    /\ \A i \in 1..MaxInstances : Pending(i) ~> (ReadyFor(i) \/ Superseded(i))

\* C17: the stored waveSurferInstance, when not null, is the live instance,
\* and no handler or callback calls a method of an instance that has been
\* destroyed.
C17_StoredInstanceIsLive ==
    /\ [](waveSurferInstance # 0 => ~players[waveSurferInstance].destroyed)
    /\ [][\A i \in 1..Len(players) :
            (players[i].destroyed /\ lastOp'.inst = i) =>
                lastOp'.op \notin {"handleFileChange", "handlePlayPause",
                                   "handleReset", "readerOnload"}]_vars

\* C18: whenever duration > 0, it is the duration the ready event of the
\* currently selected file recorded: the stored instance is live, ready, and
\* belongs to audioFile, and duration is that file's duration.
C18_DurationIsOfCurrentFile ==
    duration > 0 =>
        /\ audioFile # NoFile
        /\ Loaded
        /\ players[waveSurferInstance].file = audioFile
        /\ duration = FileInfo(audioFile).duration

\* C19: at most one audio output is playing, counting the player instances
\* and the audition sources started by trims.
C19_PlaybackNeverOverlaps ==
    Cardinality({i \in 1..Len(players) : players[i].playing})
        + Cardinality(auditions) <= 1

\* ------------------------------------------------------- supporting facts
\* Where createBuffer is given at least one frame, the trimmed buffer's frame
\* count is within one of the rounded difference (the part of C4 that the
\* code meets), whatever duration the trim was computed with.
FrameCountWithinOneWhenProduced ==
    (Trimmed /\ lastTrim.outcome = "ok" /\ lastTrim.start <= lastTrim.end) =>
        LET want == RoundedFrameCount(lastTrim.start, lastTrim.end, lastTrim.duration,
                                      FileInfo(lastTrim.file).sampleRate)
        IN  /\ lastTrim.buffer.length - want <= 1
            /\ want - lastTrim.buffer.length <= 1

\* A full-range trim computed with the duration of the file it decodes is the
\* identity (the part of C5 that the code meets).
FullRangeIsIdentityWhenDurationCurrent ==
    (/\ Trimmed
     /\ lastTrim.start = 0
     /\ lastTrim.end = 100
     /\ lastTrim.duration = FileInfo(lastTrim.file).duration) =>
        lastTrim.outcome = "ok" /\ lastTrim.buffer = lastTrim.source

\* A handleReset that runs to its end restores the defaults (the part of C10
\* that the code meets).
ResetRestoresDefaultsUnlessThrown ==
    (lastOp.op = "handleReset" /\ ~lastOp.threw) =>
        /\ audioFile = NoFile
        /\ duration = DefaultDuration
        /\ start = DefaultStart
        /\ end = DefaultEnd
        /\ isPlaying = FALSE

====
